---------------------------- MODULE Spec2Model ----------------------------
(***************************************************************************)
(* Sampling-and-decision loop of the NTC sensing firmware.                 *)
(*                                                                         *)
(* Two variants are modelled side by side, selected by `variant`:          *)
(*   "main_c" : nrfx_saadc_continuous_sampling/main.c  (raw 4-byte         *)
(*              notification, session latch, sampling flag)                *)
(*   "ble_h"  : pca10056/blank/ses/ble.h  (ASCII payload over NUS, no      *)
(*              session latch)                                             *)
(*                                                                         *)
(* The main thread is a program counter `pc`; the conversion-complete      *)
(* handler and the BLE event handler are interrupt-style actions that run  *)
(* to completion between any two main-thread steps.                        *)
(***************************************************************************)
EXTENDS Integers, Sequences, FiniteSets, TLC

(***************************************************************************)
(* Program constants                                                       *)
(***************************************************************************)
\* main.c:411  const uint32_t led_interval = 2;
led_interval == 2
\* main.c:412  const uint32_t saadc_interval = 1;
saadc_interval == 1
\* ble.h:34    #define SAADC_SAMPLE_INTERVAL_MS 1000
SAADC_SAMPLE_INTERVAL_MS == 1000
\* ble.h:334   if (++blink_timer >= 1)
blink_interval == 1
\* main.c:410  const uint32_t reset_max_count = 100000;
reset_max_count_src == 100000
\* main.c:410  the comment on that line: "100 * 100 ms = 10 seconds"
reset_max_count_doc == 100
\* main.c:50   BLE_CONN_HANDLE_INVALID (0xFFFF)
BLE_CONN_HANDLE_INVALID == 65535

(***************************************************************************)
(* Bounds of the model                                                     *)
(***************************************************************************)
\* Session length in ticks.  The source sets reset_max_count = 100000
\* (main.c:410); the interleaving model is explored with a short session so
\* that the ticks before, at and after the latch are all reached.  The
\* source's value is reset_max_count_src, used by SpecSession.
reset_max_count == 4
\* Iterations of main.c's loop explored after the one that reaches
\* reset_max_count.
PostLatchTicks == 3
\* Iterations of ble.h's loop explored.
MaxTicks == 21
\* Raw readings delivered by the converter in the interleaving model are
\* drawn from -1, 0 .. MaxReading - 1.
MaxReading == 1
\* Batches of readings fed to the match-heuristic engine.
MaxBatches == 2
\* Readings for the payload encoding are taken within EncSpan of the
\* int16 / byte boundaries.
EncSpan == 2

(***************************************************************************)
(* State                                                                   *)
(***************************************************************************)
VARIABLES
    variant,               \* which source file is running
    session_max,           \* value of main's const reset_max_count (main.c:410)
    pc,                    \* position of the main thread
    \* --- main.c locals (main.c:406-408)
    reset_counter, led_counter, saadc_counter,
    \* --- ble.h locals (ble.h:320-321)
    sample_timer, blink_timer,
    \* --- globals
    ntc_sampling_enabled,  \* main.c:44
    number_counter,        \* main.c:45
    m_conn_handle,         \* main.c:50, ble.h:51
    \* --- GPIO output latch, by pin name
    gpio_out,
    \* --- analog front-end driver
    saadc_state,           \* "uninit" | "idle" | "simple"
    armed,                 \* buffers submitted to the driver, oldest first
    converting,            \* buffer being filled by a conversion, 0 if none
    \* --- observation of the run (history)
    ticks,                 \* main-loop iterations started
    led_toggles,           \* nrf_gpio_pin_toggle(LED_PIN) calls
    triggers,              \* nrfx_saadc_mode_trigger() calls
    tick_trigger,          \* result of the trigger call of this iteration
    latch_fires,           \* iterations whose latch block was executed
    setup_failed,          \* an analog front-end setup call returned an error
    done_evt,              \* the last conversion-complete handler call
    sample, data,          \* payload encoding: readings and bytes built
    \* --- match-heuristic engine (spec section 4.2)
    ntc1_window, ntc2_window,  \* readings of the current batch, per channel
    match_detected,        \* per channel: the last decision was a detection
    fed1, fed2,            \* readings fed since the last decision (history)
    batches,               \* decisions taken (history)
    feed_mode              \* which readings the two channels deliver

vars == << variant, session_max, pc, reset_counter, led_counter, saadc_counter,
           sample_timer, blink_timer, ntc_sampling_enabled, number_counter,
           m_conn_handle, gpio_out, saadc_state, armed, converting,
           ticks, led_toggles, triggers, tick_trigger, latch_fires,
           setup_failed, done_evt, sample, data,
           ntc1_window, ntc2_window, match_detected, fed1, fed2, batches,
           feed_mode >>

Variants == {"main_c", "ble_h"}
Pins == {"LED_PIN", "SR_RESET_PIN", "NTC_EN"}
Buffers == {1, 2}

(***************************************************************************)
(* Integer helpers                                                         *)
(***************************************************************************)
\* A uint32_t is kept as its two 16-bit halves << high, low >>, so that the
\* whole range 0 .. 2^32 - 1 and the wrap of x++ are within the integers
\* that are evaluated.
U16_MOD == 65536

\* the uint32_t whose value is n
U32(n) == << n \div U16_MOD, n % U16_MOD >>

\* x++ on a uint32_t: 0xFFFFFFFF wraps to 0
U32Inc(x) ==
    IF x[2] + 1 < U16_MOD
    THEN << x[1], x[2] + 1 >>
    ELSE << (x[1] + 1) % U16_MOD, 0 >>

\* a >= b and a > b on uint32_t
U32Geq(a, b) == a[1] > b[1] \/ (a[1] = b[1] /\ a[2] >= b[2])

U32Gt(a, b) == a[1] > b[1] \/ (a[1] = b[1] /\ a[2] > b[2])

Min(a, b) == IF a <= b THEN a ELSE b

\* (uint8_t)(v & 0xFF) for an int16_t v promoted to int
LowByte(v) == v % 256
\* variant of HighByte: division rounding toward zero instead of a shift
HighByte_TruncDiv(v) == (IF v < 0 THEN -((-v) \div 256) ELSE v \div 256) % 256

\* (uint8_t)(v >> 8): arithmetic shift of the promoted int, then truncation
HighByte(v) == (v \div 256) % 256

\* main.c:80-84  uint8_t data[4]
EncodeReadings(v1, v2) == << LowByte(v1), HighByte(v1), LowByte(v2), HighByte(v2) >>

\* what a peer does with two bytes: little-endian two's-complement int16
DecodeInt16(lo, hi) ==
    LET u == lo + 256 * hi IN IF u >= 32768 THEN u - 65536 ELSE u


(***************************************************************************)
(* ASCII payload of ble.h                                                  *)
(***************************************************************************)
Digit(d) == << "0", "1", "2", "3", "4", "5", "6", "7", "8", "9" >>[d + 1]

RECURSIVE NatStr(_)
NatStr(n) == IF n < 10 THEN << Digit(n) >>
             ELSE Append(NatStr(n \div 10), Digit(n % 10))

\* printf's %d
IntStr(n) == IF n < 0 THEN << "-" >> \o NatStr(-n) ELSE NatStr(n)

\* ble.h:232  char msg[32]
MsgSize == 32

\* ble.h:232-234  snprintf(msg, sizeof(msg), "N1:%d,N2:%d\r\n", ntc1, ntc2):
\* at most sizeof(msg) - 1 characters are stored
FormatReadings(v1, v2) ==
    LET full == << "N", "1", ":" >> \o IntStr(v1) \o << ",", "N", "2", ":" >>
                \o IntStr(v2) \o << "\r", "\n" >>
    IN  IF Len(full) > MsgSize - 1 THEN SubSeq(full, 1, MsgSize - 1) ELSE full

(***************************************************************************)
(* Analog front-end driver (external collaborator: its contract is         *)
(* spec section 4.1; only its calls are in the sources)                    *)
(***************************************************************************)
\* two conversion buffers can be armed at a time (double buffering)
DriverSlots == 2

\* arm(buffer): accepted unless the hardware rejects it or both slots are taken
BufferSet(q, b, hw_ok) ==
    IF ~hw_ok THEN [err |-> "NRFX_ERROR_INVALID_STATE", armed |-> q]
    ELSE IF Len(q) >= DriverSlots
         THEN [err |-> "NRFX_ERROR_ALREADY_INITIALIZED", armed |-> q]
         ELSE [err |-> "NRF_SUCCESS", armed |-> Append(q, b)]

\* trigger(): one conversion pass into the oldest armed buffer
ModeTrigger ==
    IF saadc_state # "simple" THEN [err |-> "NRFX_ERROR_INVALID_STATE", conv |-> converting]
    ELSE IF converting # 0 THEN [err |-> "NRFX_ERROR_BUSY", conv |-> converting]
    ELSE IF armed = << >> THEN [err |-> "NRFX_ERROR_NO_MEM", conv |-> converting]
    ELSE [err |-> "NRF_SUCCESS", conv |-> Head(armed)]

\* readings the converter delivers
Readings == {-1} \cup 0 .. (MaxReading - 1)

\* results of the notification call (sd_ble_gatts_hvx, ble_nus_data_send)
TxResults == { "NRF_SUCCESS", "NRF_ERROR_BUSY", "NRF_ERROR_INVALID_STATE",
               "NRF_ERROR_RESOURCES", "NRF_ERROR_NOT_FOUND",
               "NRF_ERROR_INVALID_PARAM" }

(***************************************************************************)
(* Initial state: entry of main(), statics initialised                     *)
(***************************************************************************)
NoEvt == [ seen |-> FALSE, buf |-> 0, armed_at |-> << >>, processed |-> FALSE,
           connected |-> FALSE, tx |-> "none", rearm |-> << >>,
           rearm_err |-> FALSE, fault_by |-> "none" ]

\* the match-heuristic engine before its first reading
HeuristicIdle ==
    /\ ntc1_window = << >> /\ ntc2_window = << >>
    /\ match_detected = << FALSE, FALSE >>
    /\ fed1 = << >> /\ fed2 = << >>
    /\ batches = 0
    /\ feed_mode = "none"

Init ==
    /\ variant \in Variants
    /\ session_max = reset_max_count
    /\ HeuristicIdle
    /\ pc = "pre_init"
    /\ reset_counter = U32(0) /\ led_counter = U32(0) /\ saadc_counter = U32(0)
    /\ sample_timer = U32(0) /\ blink_timer = U32(0)
    /\ ntc_sampling_enabled = TRUE
    /\ number_counter = U32(0)
    /\ m_conn_handle = BLE_CONN_HANDLE_INVALID
    /\ gpio_out = [p \in Pins |-> 0]
    /\ saadc_state = "uninit"
    /\ armed = << >>
    /\ converting = 0
    /\ ticks = 0 /\ led_toggles = 0 /\ triggers = 0
    /\ tick_trigger = "none"
    /\ latch_fires = 0
    /\ setup_failed = FALSE
    /\ done_evt = NoEvt
    /\ sample = << >> /\ data = << >>

\* groups of variables left alone
heuristic == << ntc1_window, ntc2_window, match_detected, fed1, fed2, batches,
               feed_mode >>
locals == << reset_counter, led_counter, saadc_counter, sample_timer, blink_timer >>
globals == << ntc_sampling_enabled, number_counter, m_conn_handle >>
driver == << saadc_state, armed, converting >>
history == << ticks, led_toggles, triggers, tick_trigger, latch_fires >>
handler_obs == << done_evt, sample, data >>

\* APP_ERROR_CHECK(err): the fault handler halts the system
AppErrorCheck(ok, next) == IF ok THEN next ELSE "fault"

(***************************************************************************)
(* Startup                                                                 *)
(***************************************************************************)
\* main.c:386 timers_init();  ble.h:300-301 log_init(); timers_init();
PreInit ==
    /\ pc = "pre_init"
    /\ \E ok \in BOOLEAN :
         pc' = AppErrorCheck(ok, IF variant = "main_c" THEN "gpio_init" ELSE "ble_init")
    /\ UNCHANGED << variant, session_max, heuristic, locals, globals, gpio_out, driver, history,
                    setup_failed, handler_obs >>

\* variant of GpioInit: the enable line is not driven high
GpioInit_NoEnable ==
    /\ pc = "gpio_init"
    /\ gpio_out' = [gpio_out EXCEPT !["SR_RESET_PIN"] = 0]
    /\ pc' = IF variant = "main_c" THEN "ble_init" ELSE "advertising_start"
    /\ UNCHANGED << variant, session_max, heuristic, locals, globals, driver, history, setup_failed,
                    handler_obs >>

\* main.c:120-127 gpio_init();  ble.h:311-315
GpioInit ==
    /\ pc = "gpio_init"
    /\ gpio_out' = [gpio_out EXCEPT !["SR_RESET_PIN"] = 0, !["NTC_EN"] = 1]
    /\ pc' = IF variant = "main_c" THEN "ble_init" ELSE "advertising_start"
    /\ UNCHANGED << variant, session_max, heuristic, locals, globals, driver, history, setup_failed,
                    handler_obs >>

\* main.c:392-396, ble.h:302-307: wireless bring-up, every step checked
BleInit ==
    /\ pc = "ble_init"
    /\ \E ok \in BOOLEAN : pc' = AppErrorCheck(ok, "saadc_init")
    /\ UNCHANGED << variant, session_max, heuristic, locals, globals, gpio_out, driver, history,
                    setup_failed, handler_obs >>

\* main.c:136-143, ble.h:262-263  nrfx_saadc_init + APP_ERROR_CHECK
SaadcInit ==
    /\ pc = "saadc_init"
    /\ \E ok \in BOOLEAN :
         /\ pc' = AppErrorCheck(ok, "channels_config")
         /\ saadc_state' = IF ok THEN "idle" ELSE saadc_state
         /\ setup_failed' = (setup_failed \/ ~ok)
    /\ UNCHANGED << variant, session_max, heuristic, locals, globals, gpio_out, armed, converting,
                    history, handler_obs >>

\* main.c:146-151 nrfx_saadc_channels_config; ble.h:266-272 two channel_init calls
ChannelsConfig ==
    /\ pc = "channels_config"
    /\ \E ok0, ok1 \in BOOLEAN :
         LET ok == IF variant = "main_c" THEN ok0 ELSE ok0 /\ ok1 IN
         /\ pc' = AppErrorCheck(ok, "simple_mode_set")
         /\ setup_failed' = (setup_failed \/ ~ok)
    /\ UNCHANGED << variant, session_max, heuristic, locals, globals, gpio_out, driver, history,
                    handler_obs >>

\* main.c:154-158, ble.h:275-278  nrfx_saadc_simple_mode_set + APP_ERROR_CHECK
SimpleModeSet ==
    /\ pc = "simple_mode_set"
    /\ \E ok \in BOOLEAN :
         /\ pc' = AppErrorCheck(ok, "buffer_set_1")
         /\ saadc_state' = IF ok THEN "simple" ELSE saadc_state
         /\ setup_failed' = (setup_failed \/ ~ok)
    /\ UNCHANGED << variant, session_max, heuristic, locals, globals, gpio_out, armed, converting,
                    history, handler_obs >>

\* main.c:161-162, ble.h:281-282  first buffer armed
BufferSet1 ==
    /\ pc = "buffer_set_1"
    /\ \E hw_ok \in BOOLEAN :
         LET r == BufferSet(armed, 1, hw_ok) IN
         /\ armed' = r.armed
         /\ pc' = AppErrorCheck(r.err = "NRF_SUCCESS", "buffer_set_2")
         /\ setup_failed' = (setup_failed \/ r.err # "NRF_SUCCESS")
    /\ UNCHANGED << variant, session_max, heuristic, locals, globals, gpio_out, saadc_state, converting,
                    history, handler_obs >>

\* variant of BufferSet2: the result of the call is not checked
BufferSet2_Unchecked ==
    /\ pc = "buffer_set_2"
    /\ \E hw_ok \in BOOLEAN :
         LET r == BufferSet(armed, 2, hw_ok) IN
         /\ armed' = r.armed
         /\ pc' = IF variant = "main_c" THEN "advertising_start" ELSE "gpio_init"
         /\ setup_failed' = (setup_failed \/ r.err # "NRF_SUCCESS")
    /\ UNCHANGED << variant, session_max, heuristic, locals, globals, gpio_out, saadc_state, converting,
                    history, handler_obs >>

\* variant of BufferSet2: the second buffer is never submitted
BufferSet2_Skipped ==
    /\ pc = "buffer_set_2"
    /\ pc' = IF variant = "main_c" THEN "advertising_start" ELSE "gpio_init"
    /\ UNCHANGED << variant, session_max, heuristic, locals, globals, gpio_out,
                    driver, history, setup_failed, handler_obs >>

\* main.c:163-164, ble.h:283-284  second buffer armed
BufferSet2 ==
    /\ pc = "buffer_set_2"
    /\ \E hw_ok \in BOOLEAN :
         LET r == BufferSet(armed, 2, hw_ok) IN
         /\ armed' = r.armed
         /\ pc' = AppErrorCheck(r.err = "NRF_SUCCESS",
                                IF variant = "main_c" THEN "advertising_start"
                                                      ELSE "gpio_init")
         /\ setup_failed' = (setup_failed \/ r.err # "NRF_SUCCESS")
    /\ UNCHANGED << variant, session_max, heuristic, locals, globals, gpio_out, saadc_state, converting,
                    history, handler_obs >>

\* main.c:402-403, ble.h:318  advertising started, then the loop is entered
AdvertisingStart ==
    /\ pc = "advertising_start"
    /\ \E ok \in BOOLEAN :
         pc' = AppErrorCheck(ok, IF variant = "main_c" THEN "loop_head"
                                                        ELSE "ble_sample")
    /\ UNCHANGED << variant, session_max, heuristic, locals, globals, gpio_out, driver, history,
                    setup_failed, handler_obs >>

Startup == \/ PreInit \/ GpioInit \/ BleInit \/ SaadcInit \/ ChannelsConfig
           \/ SimpleModeSet \/ BufferSet1 \/ BufferSet2 \/ AdvertisingStart

(***************************************************************************)
(* Main loop of main.c (main.c:414-453)                                    *)
(***************************************************************************)
\* variant of LedDue: strict comparison
LedDue_Strict(c) == U32Gt(c, U32(led_interval))

\* main.c:422  if (led_counter >= led_interval)
LedDue(c) == U32Geq(c, U32(led_interval))

\* variant of SampleDue: the sampling flag is not consulted
SampleDue_NoFlag(enabled, c) == U32Geq(c, U32(saadc_interval))

\* main.c:429  if (ntc_sampling_enabled && saadc_counter >= saadc_interval)
SampleDue(enabled, c) == enabled /\ U32Geq(c, U32(saadc_interval))

\* variants of LatchDue: equality, and strict comparison
LatchDue_Eq(c) == c = U32(session_max)

LatchDue_Strict(c) == U32Gt(c, U32(session_max))

\* main.c:440  if (reset_counter >= reset_max_count)
LatchDue(c) == U32Geq(c, U32(session_max))

\* main.c:417-426  the three counters are incremented, the LED is toggled
MainLoopHead ==
    /\ pc = "loop_head"
    /\ ticks < session_max + PostLatchTicks
    /\ reset_counter' = U32Inc(reset_counter)
    /\ saadc_counter' = U32Inc(saadc_counter)
    /\ LET lc == U32Inc(led_counter) IN
         IF LedDue(lc)
         THEN /\ gpio_out' = [gpio_out EXCEPT !["LED_PIN"] = 1 - @]
              /\ led_toggles' = led_toggles + 1
              /\ led_counter' = U32(0)
         ELSE /\ led_counter' = lc
              /\ UNCHANGED << gpio_out, led_toggles >>
    /\ ticks' = ticks + 1
    /\ tick_trigger' = "none"
    /\ pc' = "sample"
    /\ UNCHANGED << variant, session_max, heuristic, sample_timer, blink_timer, globals, driver,
                    triggers, latch_fires, setup_failed, handler_obs >>

\* variant of MainSample: after a failed trigger the sample counter is
\* kept, so that the trigger is attempted again
MainSample_KeepCounterOnError ==
    /\ pc = "sample"
    /\ IF SampleDue(ntc_sampling_enabled, saadc_counter)
       THEN LET r == ModeTrigger IN
            /\ converting' = r.conv
            /\ triggers' = triggers + 1
            /\ tick_trigger' = r.err
            /\ saadc_counter' = IF r.err = "NRF_SUCCESS" THEN U32(0) ELSE saadc_counter
       ELSE UNCHANGED << converting, triggers, tick_trigger, saadc_counter >>
    /\ pc' = "latch_check"
    /\ UNCHANGED << variant, session_max, heuristic, reset_counter, led_counter, sample_timer,
                    blink_timer, globals, gpio_out, saadc_state, armed, ticks,
                    led_toggles, latch_fires, setup_failed, handler_obs >>

\* main.c:429-437  trigger a conversion; an error is only logged
MainSample ==
    /\ pc = "sample"
    /\ IF SampleDue(ntc_sampling_enabled, saadc_counter)
       THEN LET r == ModeTrigger IN
            /\ converting' = r.conv
            /\ triggers' = triggers + 1
            /\ tick_trigger' = r.err
            /\ saadc_counter' = U32(0)
       ELSE UNCHANGED << converting, triggers, tick_trigger, saadc_counter >>
    /\ pc' = "latch_check"
    /\ UNCHANGED << variant, session_max, heuristic, reset_counter, led_counter, sample_timer,
                    blink_timer, globals, gpio_out, saadc_state, armed, ticks,
                    led_toggles, latch_fires, setup_failed, handler_obs >>

\* main.c:440  the guard of the latch block
MainLatchCheck ==
    /\ pc = "latch_check"
    /\ IF LatchDue(reset_counter)
       THEN /\ pc' = "set_reset"
            /\ latch_fires' = latch_fires + 1
       ELSE /\ pc' = "delay"
            /\ UNCHANGED latch_fires
    /\ UNCHANGED << variant, session_max, heuristic, locals, globals, gpio_out, driver, ticks,
                    led_toggles, triggers, tick_trigger, setup_failed,
                    handler_obs >>

\* variant of MainSetReset: the pin is toggled instead of set
MainSetReset_Toggle ==
    /\ pc = "set_reset"
    /\ gpio_out' = [gpio_out EXCEPT !["SR_RESET_PIN"] = 1 - @]
    /\ pc' = "clear_en"
    /\ UNCHANGED << variant, session_max, heuristic, locals, globals, driver, history, setup_failed,
                    handler_obs >>

\* main.c:442  nrf_gpio_pin_set(SR_RESET_PIN)
MainSetReset ==
    /\ pc = "set_reset"
    /\ gpio_out' = [gpio_out EXCEPT !["SR_RESET_PIN"] = 1]
    /\ pc' = "clear_en"
    /\ UNCHANGED << variant, session_max, heuristic, locals, globals, driver, history, setup_failed,
                    handler_obs >>

\* variant of MainClearEn: the enable line is left as it is
MainClearEn_Skip ==
    /\ pc = "clear_en"
    /\ pc' = "disable"
    /\ UNCHANGED << variant, session_max, heuristic, locals, globals, gpio_out, driver, history,
                    setup_failed, handler_obs >>

\* main.c:443  nrf_gpio_pin_clear(NTC_EN)
MainClearEn ==
    /\ pc = "clear_en"
    /\ gpio_out' = [gpio_out EXCEPT !["NTC_EN"] = 0]
    /\ pc' = "disable"
    /\ UNCHANGED << variant, session_max, heuristic, locals, globals, driver, history, setup_failed,
                    handler_obs >>

\* main.c:444  ntc_sampling_enabled = false.  The flag is an ordinary
\* (non-volatile) object shared with the handler, the two pin writes of
\* main.c:442-443 are volatile register stores: a build may emit the store
\* of the flag before either of them, between them, or after both.  The
\* store is therefore taken at any point of the latch block; at the place
\* the source gives it, the block moves on.
MainDisable ==
    /\ \/ /\ pc = "disable"
          /\ pc' = "pin_counter"
       \/ /\ pc \in {"set_reset", "clear_en"}
          /\ ntc_sampling_enabled
          /\ pc' = pc
    /\ ntc_sampling_enabled' = FALSE
    /\ UNCHANGED << variant, session_max, heuristic, locals, number_counter, m_conn_handle, gpio_out,
                    driver, history, setup_failed, handler_obs >>

\* variant of MainPinCounter: the counter is restarted instead of pinned
MainPinCounter_Zero ==
    /\ pc = "pin_counter"
    /\ reset_counter' = U32(0)
    /\ pc' = "delay"
    /\ UNCHANGED << variant, session_max, heuristic, led_counter, saadc_counter,
                    sample_timer, blink_timer, globals, gpio_out, driver, history,
                    setup_failed, handler_obs >>

\* main.c:445  reset_counter = reset_max_count
MainPinCounter ==
    /\ pc = "pin_counter"
    /\ reset_counter' = U32(session_max)
    /\ pc' = "delay"
    /\ UNCHANGED << variant, session_max, heuristic, led_counter, saadc_counter, sample_timer,
                    blink_timer, globals, gpio_out, driver, history,
                    setup_failed, handler_obs >>

\* main.c:449-452  logs are flushed, nrf_delay_ms(100): end of the iteration
MainDelay ==
    /\ pc = "delay"
    /\ pc' = "loop_head"
    /\ UNCHANGED << variant, session_max, heuristic, locals, globals, gpio_out, driver, history,
                    setup_failed, handler_obs >>

MainLoop == \/ MainLoopHead \/ MainSample \/ MainLatchCheck \/ MainSetReset
            \/ MainClearEn \/ MainDisable \/ MainPinCounter \/ MainDelay

(***************************************************************************)
(* Main loop of ble.h (ble.h:324-341)                                      *)
(***************************************************************************)
\* ble.h:327  if (++sample_timer >= (SAADC_SAMPLE_INTERVAL_MS / 100))
BleSampleDue(c) == U32Geq(c, U32(SAADC_SAMPLE_INTERVAL_MS \div 100))

\* ble.h:334  if (++blink_timer >= 1)
BleBlinkDue(c) == U32Geq(c, U32(blink_interval))

\* ble.h:327-331  the trigger's result is not looked at
BleSample ==
    /\ pc = "ble_sample"
    /\ ticks < MaxTicks
    /\ ticks' = ticks + 1
    /\ LET st == U32Inc(sample_timer) IN
         IF BleSampleDue(st)
         THEN LET r == ModeTrigger IN
              /\ sample_timer' = U32(0)
              /\ converting' = r.conv
              /\ triggers' = triggers + 1
              /\ tick_trigger' = r.err
         ELSE /\ sample_timer' = st
              /\ tick_trigger' = "none"
              /\ UNCHANGED << converting, triggers >>
    /\ pc' = "ble_blink"
    /\ UNCHANGED << variant, session_max, heuristic, reset_counter, led_counter, saadc_counter,
                    blink_timer, globals, gpio_out, saadc_state, armed,
                    led_toggles, latch_fires, setup_failed, handler_obs >>

\* ble.h:334-338
BleBlink ==
    /\ pc = "ble_blink"
    /\ LET bt == U32Inc(blink_timer) IN
         IF BleBlinkDue(bt)
         THEN /\ blink_timer' = U32(0)
              /\ gpio_out' = [gpio_out EXCEPT !["LED_PIN"] = 1 - @]
              /\ led_toggles' = led_toggles + 1
         ELSE /\ blink_timer' = bt
              /\ UNCHANGED << gpio_out, led_toggles >>
    /\ pc' = "ble_idle"
    /\ UNCHANGED << variant, session_max, heuristic, reset_counter, led_counter, saadc_counter,
                    sample_timer, globals, driver, ticks, triggers,
                    tick_trigger, latch_fires, setup_failed, handler_obs >>

\* ble.h:340  idle_state_handle(): end of the iteration
BleIdle ==
    /\ pc = "ble_idle"
    /\ pc' = "ble_sample"
    /\ UNCHANGED << variant, session_max, heuristic, locals, globals, gpio_out, driver, history,
                    setup_failed, handler_obs >>

BleLoop == BleSample \/ BleBlink \/ BleIdle

(***************************************************************************)
(* Conversion-complete handler                                             *)
(***************************************************************************)
\* main.c:109  p_buffer == saadc_buffer_1 ? saadc_buffer_2 : saadc_buffer_1
NextBuffer(buf) == IF buf = 1 THEN 2 ELSE 1

\* variant of MainHandler: the reading is numbered before the sampling flag
\* is looked at
MainHandler_CountAlways(buf, q, v1, v2, tx, hw_ok) ==
    IF ntc_sampling_enabled
    THEN LET connected == m_conn_handle # BLE_CONN_HANDLE_INVALID
             r == BufferSet(q, NextBuffer(buf), hw_ok)
             failed == r.err # "NRF_SUCCESS"
         IN  /\ number_counter' = U32Inc(number_counter)
             /\ sample' = << v1, v2 >>
             /\ data' = EncodeReadings(v1, v2)
             /\ armed' = r.armed
             /\ pc' = AppErrorCheck(~failed, pc)
             /\ done_evt' = [ seen |-> TRUE, buf |-> buf, armed_at |-> q,
                              processed |-> TRUE, connected |-> connected,
                              tx |-> IF connected THEN tx ELSE "none",
                              rearm |-> << NextBuffer(buf) >>,
                              rearm_err |-> failed,
                              fault_by |-> IF failed THEN "rearm" ELSE "none" ]
    ELSE /\ armed' = q
         /\ number_counter' = U32Inc(number_counter)
         /\ done_evt' = [NoEvt EXCEPT !.seen = TRUE, !.buf = buf, !.armed_at = q]
         /\ UNCHANGED << sample, data, pc >>

\* variant of MainHandler: the next buffer is armed whether or not sampling
\* is enabled
MainHandler_RearmAlways(buf, q, v1, v2, tx, hw_ok) ==
    LET r == BufferSet(q, NextBuffer(buf), hw_ok)
        failed == r.err # "NRF_SUCCESS"
    IN  IF ntc_sampling_enabled
        THEN LET connected == m_conn_handle # BLE_CONN_HANDLE_INVALID
             IN  /\ number_counter' = U32Inc(number_counter)
                 /\ sample' = << v1, v2 >>
                 /\ data' = EncodeReadings(v1, v2)
                 /\ armed' = r.armed
                 /\ pc' = AppErrorCheck(~failed, pc)
                 /\ done_evt' = [ seen |-> TRUE, buf |-> buf, armed_at |-> q,
                                  processed |-> TRUE, connected |-> connected,
                                  tx |-> IF connected THEN tx ELSE "none",
                                  rearm |-> << NextBuffer(buf) >>,
                                  rearm_err |-> failed,
                                  fault_by |-> IF failed THEN "rearm" ELSE "none" ]
        ELSE /\ armed' = r.armed
             /\ done_evt' = [NoEvt EXCEPT !.seen = TRUE, !.buf = buf, !.armed_at = q,
                                          !.rearm = << NextBuffer(buf) >>,
                                          !.rearm_err = failed]
             /\ UNCHANGED << number_counter, sample, data, pc >>

\* main.c:67-116  saadc_event_handler, NRFX_SAADC_EVT_DONE delivering buf
\* with the driver's queue q, readings v1 v2, notification result tx and
\* the hardware's answer to the buffer-set call
MainHandler(buf, q, v1, v2, tx, hw_ok) ==
    IF ntc_sampling_enabled
    THEN LET connected == m_conn_handle # BLE_CONN_HANDLE_INVALID
             r == BufferSet(q, NextBuffer(buf), hw_ok)
             failed == r.err # "NRF_SUCCESS"
         IN  /\ number_counter' = U32Inc(number_counter)
             /\ sample' = << v1, v2 >>
             /\ data' = EncodeReadings(v1, v2)
             /\ armed' = r.armed
             /\ pc' = AppErrorCheck(~failed, pc)
             /\ done_evt' = [ seen |-> TRUE, buf |-> buf, armed_at |-> q,
                              processed |-> TRUE, connected |-> connected,
                              tx |-> IF connected THEN tx ELSE "none",
                              rearm |-> << NextBuffer(buf) >>,
                              rearm_err |-> failed,
                              fault_by |-> IF failed THEN "rearm" ELSE "none" ]
    ELSE /\ armed' = q
         /\ done_evt' = [NoEvt EXCEPT !.seen = TRUE, !.buf = buf, !.armed_at = q]
         /\ UNCHANGED << number_counter, sample, data, pc >>

\* ble.h:243-248  the results that are let through; any other one is
\* handed to APP_ERROR_CHECK
TxTolerated(tx) == tx \in { "NRF_ERROR_INVALID_STATE", "NRF_ERROR_RESOURCES",
                            "NRF_ERROR_NOT_FOUND" }

\* ble.h:220-255  saadc_event_handler
BleHandler(buf, q, v1, v2, tx, hw_ok1, hw_ok2) ==
    LET connected == m_conn_handle # BLE_CONN_HANDLE_INVALID
        fatal == connected /\ ~TxTolerated(tx) /\ tx # "NRF_SUCCESS"
        r1 == BufferSet(q, 1, hw_ok1)
        r2 == BufferSet(r1.armed, 2, hw_ok2)
        failed == r1.err # "NRF_SUCCESS" \/ r2.err # "NRF_SUCCESS"
    IN  /\ sample' = << v1, v2 >>
        /\ data' = FormatReadings(v1, v2)
        /\ UNCHANGED number_counter
        /\ IF fatal
           THEN /\ pc' = "fault"
                /\ armed' = q
                /\ done_evt' = [ seen |-> TRUE, buf |-> buf, armed_at |-> q,
                                 processed |-> TRUE, connected |-> connected,
                                 tx |-> tx, rearm |-> << >>,
                                 rearm_err |-> FALSE, fault_by |-> "transport" ]
           ELSE /\ pc' = pc
                /\ armed' = r2.armed
                /\ done_evt' = [ seen |-> TRUE, buf |-> buf, armed_at |-> q,
                                 processed |-> TRUE, connected |-> connected,
                                 tx |-> IF connected THEN tx ELSE "none",
                                 rearm |-> << 1, 2 >>,
                                 rearm_err |-> failed, fault_by |-> "none" ]

\* the conversion in flight finishes: its buffer leaves the driver's queue
\* and is handed to the handler
SaadcDone ==
    /\ pc # "fault"
    /\ converting # 0
    /\ converting' = 0
    /\ \E v1, v2 \in Readings, tx \in TxResults, hw_ok1, hw_ok2 \in BOOLEAN :
         IF variant = "main_c"
         THEN MainHandler(converting, Tail(armed), v1, v2, tx, hw_ok1)
         ELSE BleHandler(converting, Tail(armed), v1, v2, tx, hw_ok1, hw_ok2)
    /\ UNCHANGED << variant, session_max, heuristic, locals, ntc_sampling_enabled, m_conn_handle,
                    gpio_out, saadc_state, history, setup_failed >>

(***************************************************************************)
(* BLE events (main.c:169-208 ble_evt_handler, ble.h:83-101 on_ble_evt)    *)
(***************************************************************************)
Advertising == pc \in { "loop_head", "sample", "latch_check", "set_reset",
                        "clear_en", "disable", "pin_counter", "delay",
                        "ble_sample", "ble_blink", "ble_idle" }

\* BLE_GAP_EVT_CONNECTED
BleConnected ==
    /\ Advertising
    /\ m_conn_handle = BLE_CONN_HANDLE_INVALID
    /\ m_conn_handle' = 0
    /\ UNCHANGED << variant, session_max, heuristic, pc, locals, ntc_sampling_enabled, number_counter,
                    gpio_out, driver, history, setup_failed, handler_obs >>

\* BLE_GAP_EVT_DISCONNECTED: advertising is restarted, checked
BleDisconnected ==
    /\ Advertising
    /\ m_conn_handle # BLE_CONN_HANDLE_INVALID
    /\ m_conn_handle' = BLE_CONN_HANDLE_INVALID
    /\ \E ok \in BOOLEAN : pc' = AppErrorCheck(ok, pc)
    /\ UNCHANGED << variant, session_max, heuristic, locals, ntc_sampling_enabled, number_counter,
                    gpio_out, driver, history, setup_failed, handler_obs >>

\* main.c:188-194  BLE_GAP_EVT_SEC_PARAMS_REQUEST from the connected peer:
\* pairing is refused, the reply is checked
SecParamsRequest ==
    /\ variant = "main_c"
    /\ Advertising
    /\ m_conn_handle # BLE_CONN_HANDLE_INVALID
    /\ \E ok \in BOOLEAN : pc' = AppErrorCheck(ok, pc)
    /\ UNCHANGED << variant, session_max, heuristic, locals, globals,
                    gpio_out, driver, history, setup_failed, handler_obs >>

\* main.c:196-203  BLE_GAP_EVT_TIMEOUT: when advertising timed out (no peer
\* is connected then) it is restarted, checked; any other timeout is ignored
GapTimeout ==
    /\ variant = "main_c"
    /\ Advertising
    /\ \E src_advertising, ok \in BOOLEAN :
         /\ src_advertising => m_conn_handle = BLE_CONN_HANDLE_INVALID
         /\ pc' = IF src_advertising THEN AppErrorCheck(ok, pc) ELSE pc
    /\ UNCHANGED << variant, session_max, heuristic, locals, globals,
                    gpio_out, driver, history, setup_failed, handler_obs >>

\* main.c:337-346  on_conn_params_evt: on BLE_CONN_PARAMS_EVT_FAILED the
\* link is dropped with sd_ble_gap_disconnect, checked (the disconnection
\* itself arrives later as BLE_GAP_EVT_DISCONNECTED); ble.h registers no
\* such handler (ble.h:212)
OnConnParamsEvt ==
    /\ variant = "main_c"
    /\ Advertising
    /\ \E evt_failed, ok \in BOOLEAN :
         pc' = IF evt_failed THEN AppErrorCheck(ok, pc) ELSE pc
    /\ UNCHANGED << variant, session_max, heuristic, locals, globals,
                    gpio_out, driver, history, setup_failed, handler_obs >>

\* main.c:350-353, ble.h:197-200  conn_params_error_handler:
\* APP_ERROR_HANDLER(nrf_error), unconditional
ConnParamsErrorHandler ==
    /\ Advertising
    /\ pc' = "fault"
    /\ UNCHANGED << variant, session_max, heuristic, locals, globals,
                    gpio_out, driver, history, setup_failed, handler_obs >>

(***************************************************************************)
(* Specifications                                                          *)
(***************************************************************************)
MainThread == Startup \/ MainLoop \/ BleLoop

Next == \/ PreInit \/ GpioInit \/ BleInit \/ SaadcInit \/ ChannelsConfig
        \/ SimpleModeSet \/ BufferSet1 \/ BufferSet2 \/ AdvertisingStart
        \/ MainLoopHead \/ MainSample \/ MainLatchCheck \/ MainSetReset
        \/ MainClearEn \/ MainDisable \/ MainPinCounter \/ MainDelay
        \/ BleSample \/ BleBlink \/ BleIdle
        \/ SaadcDone \/ BleConnected \/ BleDisconnected
        \/ SecParamsRequest \/ GapTimeout \/ OnConnParamsEvt
        \/ ConnParamsErrorHandler

Spec == Init /\ [][Next]_vars

TypeOK ==
    /\ variant \in Variants
    /\ reset_counter \in { U32(n) : n \in 0 .. reset_max_count + 1 }
    /\ ntc_sampling_enabled \in BOOLEAN
    /\ gpio_out \in [Pins -> {0, 1}]
    /\ Len(armed) <= DriverSlots
    /\ converting \in {0} \cup Buffers

FairSpec == Spec /\ WF_vars(MainThread)

(***************************************************************************)
(* Payload encoding on its own: readings around the int16 and byte         *)
(* boundaries are encoded as the handler encodes them (main.c:80-84)       *)
(***************************************************************************)
EncPivots == {-32768, -256, 0, 256, 32767}

Int16 == -32768 .. 32767

EncValues == { v \in UNION { (p - EncSpan) .. (p + EncSpan) : p \in EncPivots } :
               v \in Int16 }

\* every reading of either channel beside a boundary reading of the other,
\* and every pair of boundary readings
EncSamples == (Int16 \X {-1, 0}) \cup ({-1, 0} \X Int16) \cup (EncValues \X EncValues)

InitEnc ==
    /\ variant = "main_c"
    /\ session_max = reset_max_count
    /\ HeuristicIdle
    /\ pc = "encode"
    /\ reset_counter = U32(0) /\ led_counter = U32(0) /\ saadc_counter = U32(0)
    /\ sample_timer = U32(0) /\ blink_timer = U32(0)
    /\ ntc_sampling_enabled = TRUE
    /\ number_counter = U32(0)
    /\ m_conn_handle = BLE_CONN_HANDLE_INVALID
    /\ gpio_out = [p \in Pins |-> 0]
    /\ saadc_state = "uninit"
    /\ armed = << >>
    /\ converting = 0
    /\ ticks = 0 /\ led_toggles = 0 /\ triggers = 0
    /\ tick_trigger = "none"
    /\ latch_fires = 0
    /\ setup_failed = FALSE
    /\ done_evt = NoEvt
    /\ sample \in EncSamples
    /\ data = << >>

Encode ==
    /\ pc = "encode"
    /\ data' = EncodeReadings(sample[1], sample[2])
    /\ pc' = "encoded"
    /\ UNCHANGED << variant, session_max, heuristic, locals, globals, gpio_out, driver, history,
                    setup_failed, done_evt, sample >>

SpecEnc == InitEnc /\ [][Encode]_vars

(***************************************************************************)
(* Properties                                                              *)
(***************************************************************************)
\* sampling flag false, enable line deasserted, reset line asserted
Latched ==
    /\ ~ntc_sampling_enabled
    /\ gpio_out["NTC_EN"] = 0
    /\ gpio_out["SR_RESET_PIN"] = 1

\* end of an iteration of main.c's loop
MainTickEnd == variant = "main_c" /\ pc = "delay"

\* end of an iteration of ble.h's loop
BleTickEnd == variant = "ble_h" /\ pc = "ble_idle"

\* C1 (as claimed): in main.c the latch block is executed on exactly one
\* tick, the first at which the session counter reaches reset_max_count, and
\* on no later tick.
C1_LatchBlockRunsOnce ==
    MainTickEnd => latch_fires = (IF ticks >= reset_max_count THEN 1 ELSE 0)

\* C1 (amended): in main.c the latch block is first executed on the tick at
\* which the session counter reaches reset_max_count and again on every later
\* tick, the counter being pinned at reset_max_count; from its first
\* execution on, every tick ends with the system Latched.
C1_LatchBlockRunsEveryTickFromMax ==
    MainTickEnd =>
        /\ latch_fires = (IF ticks >= reset_max_count
                          THEN ticks - reset_max_count + 1 ELSE 0)
        /\ (latch_fires >= 1 => Latched /\ reset_counter = U32(reset_max_count))

C1_Witness == MainTickEnd /\ latch_fires = 3 /\ ticks = reset_max_count + 2

\* C2: Latched is terminal: no step of the main loop, of the conversion-
\* complete handler or of a connection event leaves the Latched state.
C2_LatchedIsTerminal == [][Latched => Latched']_vars

C2_Witness ==
    /\ Latched
    /\ ticks >= reset_max_count + 2
    /\ done_evt.seen /\ ~done_evt.processed
    /\ m_conn_handle # BLE_CONN_HANDLE_INVALID

\* C3 (as claimed): in every variant, a tick that ends after the session
\* divisor has elapsed ends with the system Latched.
C3_EveryVariantLatches ==
    (ticks >= reset_max_count /\ (MainTickEnd \/ BleTickEnd)) => Latched

\* C3 (amended): in main.c every tick from the reset_max_count-th on ends
\* with the system Latched, and with the main thread scheduled fairly every
\* run of main.c reaches Latched unless it halts in the fatal-error state;
\* ble.h has no session counter: it never asserts the reset line and never
\* stops sampling.
C3_MainLatchesBleNever ==
    /\ []((MainTickEnd /\ ticks >= reset_max_count) => Latched)
    /\ [](variant = "ble_h" => gpio_out["SR_RESET_PIN"] = 0 /\ ntc_sampling_enabled)
    /\ (variant = "main_c") ~> (Latched \/ pc = "fault")

C3_Witness == MainTickEnd /\ ticks = reset_max_count /\ Latched

\* the buffers in a sequence of armed buffers
ArmedSet(q) == { q[i] : i \in 1 .. Len(q) }

\* C4: for every completion delivering buffer A to the handler, A is not
\* armed at that moment, the other buffer B is, and the handler re-arms A
\* itself (not B).
C4_DoubleBufferProtocol ==
    (done_evt.seen /\ done_evt.processed) =>
        /\ done_evt.buf \notin ArmedSet(done_evt.armed_at)
        /\ NextBuffer(done_evt.buf) \in ArmedSet(done_evt.armed_at)
        /\ done_evt.rearm = << done_evt.buf >>

\* C5: a buffer-set call that fails inside the conversion-complete handler
\* puts the system in the fatal error state.
C5_RearmFailureIsFatal == done_evt.rearm_err => pc = "fault"

\* C6: whatever the transport answers, the handler is not stopped by it:
\* nothing is sent without a peer, no transport result leads to the fatal
\* error state, and a buffer is re-armed.
C6_TransportNeverFatal ==
    done_evt.processed =>
        /\ (~done_evt.connected => done_evt.tx = "none")
        /\ done_evt.fault_by # "transport"
        /\ done_evt.rearm # << >>

\* C7: while sampling is enabled one trigger is issued every sample-divisor
\* ticks (every tick in main.c, every 10th iteration in ble.h), and none on
\* a tick after sampling has been disabled.
C7_TriggerCadence ==
    /\ MainTickEnd => triggers = Min(ticks, reset_max_count) \div saadc_interval
    /\ (variant = "main_c" /\ ticks > reset_max_count) => tick_trigger = "none"
    /\ BleTickEnd => triggers = ticks \div (SAADC_SAMPLE_INTERVAL_MS \div 100)

C7_Witness ==
    /\ MainTickEnd
    /\ ~ntc_sampling_enabled
    /\ ticks = reset_max_count + 2
    /\ triggers = reset_max_count

\* C8: the LED is toggled once per led_divisor ticks and on no other tick,
\* whether or not a trigger was issued or failed on the tick and whether or
\* not sampling has been disabled.
C8_LedCadence ==
    /\ MainTickEnd => /\ led_toggles = ticks \div led_interval
                      /\ gpio_out["LED_PIN"] = led_toggles % 2
    /\ BleTickEnd => /\ led_toggles = ticks \div blink_interval
                     /\ gpio_out["LED_PIN"] = led_toggles % 2

C8_Witness ==
    /\ MainTickEnd
    /\ tick_trigger = "NRFX_ERROR_BUSY"
    /\ ticks = 2 * led_interval
    /\ led_toggles = 2

\* C9: the raw payload of readings (v1, v2) is 4 bytes which, read as two
\* little-endian two's-complement 16-bit integers, give back v1 then v2.
C9_PayloadLittleEndian ==
    pc = "encoded" =>
        /\ Len(data) = 4
        /\ \A i \in 1 .. 4 : data[i] \in 0 .. 255
        /\ DecodeInt16(data[1], data[2]) = sample[1]
        /\ DecodeInt16(data[3], data[4]) = sample[2]

C9_Witness ==
    /\ pc = "encoded"
    /\ sample = << -2, 258 >>
    /\ data = << 254, 255, 2, 1 >>

\* C10: an analog front-end setup call that returns an error aborts startup
\* in the fatal error state: no tick is counted, the LED is never toggled
\* and no conversion is triggered.
C10_SetupFailureAborts ==
    setup_failed =>
        /\ pc = "fault"
        /\ ticks = 0 /\ led_toggles = 0 /\ triggers = 0
        /\ converting = 0

C10_Witness == setup_failed /\ variant = "ble_h" /\ armed = << 1 >>

(***************************************************************************)
(* Match-heuristic engine (spec sections 3 and 4.2; the variant that       *)
(* applies it is not among the sources)                                    *)
(***************************************************************************)
\* ReadingWindow: W = 15
WindowSize == 15
\* total match count in the inclusive range [7, 8]
MatchMin == 7
MatchMax == 8

\* readings of w from position i on that equal ref
RECURSIVE CountEqual(_, _, _)
CountEqual(w, ref, i) ==
    IF i > Len(w) THEN 0
    ELSE (IF w[i] = ref THEN 1 ELSE 0) + CountEqual(w, ref, i + 1)

\* variant of MatchCount: the reference reading itself is not counted
MatchCount_NoRef(w) == CountEqual(w, w[1], 2)

\* the first reading is the reference; the matches among the remaining
\* readings are counted, and the reference itself is included in the total
MatchCount(w) == 1 + CountEqual(w, w[1], 2)

\* positive detection for one channel
Detect(w) == MatchCount(w) >= MatchMin /\ MatchCount(w) <= MatchMax

\* variant of WindowAfterDecision: the newest reading is carried over
WindowAfterDecision_KeepLast(w) == << w[Len(w)] >>

\* the window after a decision: discarded in full, not rotated
WindowAfterDecision(w) == << >>

\* a detection on either channel latches
MatchLatched == match_detected[1] \/ match_detected[2]

\* readings the two channels deliver at position pos of a batch: one channel
\* is free, the other follows a pattern (all equal; exactly 7 equal to the
\* first; all distinct)
FreeReadings == {0, 1}

FeedModes == { "ch1_free_flat", "ch1_free_half", "ch1_free_distinct",
               "ch2_free_flat" }

Pattern(mode, pos) ==
    CASE mode \in {"ch1_free_flat", "ch2_free_flat"} -> {3}
      [] mode = "ch1_free_half" -> {IF pos <= MatchMin THEN 3 ELSE 4}
      [] mode = "ch1_free_distinct" -> {10 + pos}

Channel1Readings(mode, pos) ==
    IF mode = "ch2_free_flat" THEN Pattern(mode, pos) ELSE FreeReadings

Channel2Readings(mode, pos) ==
    IF mode = "ch2_free_flat" THEN FreeReadings ELSE Pattern(mode, pos)

InitMatch ==
    /\ variant = "match"
    /\ session_max = reset_max_count
    /\ pc = "match"
    /\ reset_counter = U32(0) /\ led_counter = U32(0) /\ saadc_counter = U32(0)
    /\ sample_timer = U32(0) /\ blink_timer = U32(0)
    /\ ntc_sampling_enabled = TRUE
    /\ number_counter = U32(0)
    /\ m_conn_handle = BLE_CONN_HANDLE_INVALID
    /\ gpio_out = [p \in Pins |-> IF p = "NTC_EN" THEN 1 ELSE 0]
    /\ saadc_state = "simple"
    /\ armed = << 1, 2 >>
    /\ converting = 0
    /\ ticks = 0 /\ led_toggles = 0 /\ triggers = 0
    /\ tick_trigger = "none"
    /\ latch_fires = 0
    /\ setup_failed = FALSE
    /\ done_evt = NoEvt
    /\ sample = << >> /\ data = << >>
    /\ ntc1_window = << >> /\ ntc2_window = << >>
    /\ match_detected = << FALSE, FALSE >>
    /\ fed1 = << >> /\ fed2 = << >>
    /\ batches = 0
    /\ feed_mode \in FeedModes

\* one completed conversion handed to the engine: both windows grow by one
\* reading; at WindowSize readings the decision is taken, a detection
\* clears the enable line, stops sampling and drives the reset line low,
\* and the windows are discarded
MatchFeed ==
    /\ pc = "match"
    /\ ntc_sampling_enabled
    /\ batches < MaxBatches
    /\ \E v1 \in Channel1Readings(feed_mode, Len(ntc1_window) + 1),
          v2 \in Channel2Readings(feed_mode, Len(ntc2_window) + 1) :
         LET w1 == Append(ntc1_window, v1)
             w2 == Append(ntc2_window, v2)
         IN  /\ fed1' = IF Len(fed1) = WindowSize THEN << v1 >> ELSE Append(fed1, v1)
             /\ fed2' = IF Len(fed2) = WindowSize THEN << v2 >> ELSE Append(fed2, v2)
             /\ sample' = << v1, v2 >>
             /\ IF Len(w1) >= WindowSize
                THEN LET d1 == Detect(w1)
                         d2 == Detect(w2)
                     IN  /\ match_detected' = << d1, d2 >>
                         /\ batches' = batches + 1
                         /\ ntc1_window' = WindowAfterDecision(w1)
                         /\ ntc2_window' = WindowAfterDecision(w2)
                         /\ IF d1 \/ d2
                            THEN /\ gpio_out' = [gpio_out EXCEPT !["NTC_EN"] = 0,
                                                                 !["SR_RESET_PIN"] = 0]
                                 /\ ntc_sampling_enabled' = FALSE
                            ELSE UNCHANGED << gpio_out, ntc_sampling_enabled >>
                ELSE /\ ntc1_window' = w1
                     /\ ntc2_window' = w2
                     /\ match_detected' = << FALSE, FALSE >>
                     /\ UNCHANGED << batches, gpio_out, ntc_sampling_enabled >>
    /\ UNCHANGED << variant, session_max, pc, locals, number_counter,
                    m_conn_handle, driver, history, setup_failed, done_evt,
                    data, feed_mode >>

SpecMatch == InitMatch /\ [][MatchFeed]_vars

\* readings of a complete batch equal to its first reading
EqualToFirst(w) == Cardinality({ i \in 1 .. Len(w) : w[i] = w[1] })

(***************************************************************************)
(* main.c with the session length written at main.c:410                    *)
(***************************************************************************)
\* main.c:383-454 with reset_max_count = 100000; the main thread alone
InitSession ==
    /\ variant = "main_c"
    /\ session_max = reset_max_count_src
    /\ HeuristicIdle
    /\ pc = "pre_init"
    /\ reset_counter = U32(0) /\ led_counter = U32(0) /\ saadc_counter = U32(0)
    /\ sample_timer = U32(0) /\ blink_timer = U32(0)
    /\ ntc_sampling_enabled = TRUE
    /\ number_counter = U32(0)
    /\ m_conn_handle = BLE_CONN_HANDLE_INVALID
    /\ gpio_out = [p \in Pins |-> 0]
    /\ saadc_state = "uninit"
    /\ armed = << >>
    /\ converting = 0
    /\ ticks = 0 /\ led_toggles = 0 /\ triggers = 0
    /\ tick_trigger = "none"
    /\ latch_fires = 0
    /\ setup_failed = FALSE
    /\ done_evt = NoEvt
    /\ sample = << >> /\ data = << >>

NextSession ==
    \/ PreInit \/ GpioInit \/ BleInit \/ SaadcInit \/ ChannelsConfig
    \/ SimpleModeSet \/ BufferSet1 \/ BufferSet2 \/ AdvertisingStart
    \/ MainLoopHead \/ MainSample \/ MainLatchCheck \/ MainSetReset
    \/ MainClearEn \/ MainDisable \/ MainPinCounter \/ MainDelay

SpecSession == InitSession /\ [][NextSession]_vars

\* C11: in every variant both conversion buffers have been armed, by two
\* successful buffer-set calls, one per buffer, when the main loop issues
\* its first trigger.
C11_BothBuffersArmedBeforeFirstTrigger ==
    [][(triggers = 0 /\ triggers' = 1) =>
          /\ armed = << 1, 2 >>
          /\ ~setup_failed
          /\ tick_trigger' = "NRF_SUCCESS"]_vars

C11_Witness ==
    /\ variant = "ble_h"
    /\ triggers = 1
    /\ converting = 1
    /\ armed = << 1, 2 >>
    /\ ~done_evt.seen

\* C12: the session counter saturates: once it has reached reset_max_count
\* it never falls below it again (in particular never returns to 0), and it
\* is min(ticks, reset_max_count) at the end of every iteration of main.c's
\* loop.
C12_SessionCounterSaturates ==
    /\ [][U32Geq(reset_counter, U32(reset_max_count)) =>
             U32Geq(reset_counter', U32(reset_max_count))]_vars
    /\ [](MainTickEnd => reset_counter = U32(Min(ticks, reset_max_count)))
    /\ [](U32Geq(U32(reset_max_count + 1), reset_counter))

C12_Witness ==
    /\ MainTickEnd
    /\ ticks = reset_max_count + PostLatchTicks
    /\ reset_counter = U32(reset_max_count)

\* C13: for every batch of exactly 15 readings of one channel, detection
\* for that channel holds if and only if the number of readings equal to the
\* first one, itself included, is 7 or 8; it is false for the all-equal
\* batch and for the all-distinct batch.
C13_DetectionIffSevenOrEight ==
    (Len(fed1) = 15 /\ Len(fed2) = 15) =>
        /\ match_detected[1] = (EqualToFirst(fed1) \in {7, 8})
        /\ match_detected[2] = (EqualToFirst(fed2) \in {7, 8})
        /\ (EqualToFirst(fed1) \in {1, 15} => ~match_detected[1])
        /\ (EqualToFirst(fed2) \in {1, 15} => ~match_detected[2])

C13_Witness ==
    /\ fed1 = << 0, 0, 0, 0, 0, 0, 0, 1, 1, 1, 1, 1, 1, 1, 1 >>
    /\ EqualToFirst(fed2) = 1
    /\ match_detected = << TRUE, FALSE >>

\* C14: each window holds between 0 and 15 readings, namely the readings
\* of the current batch and nothing else; the 15th reading brings the
\* decision, after which both windows are empty, so that the decision on
\* the next batch is the one its own 15 readings call for.
C14_BatchesDoNotOverlap ==
    /\ Len(ntc1_window) \in 0 .. 15 /\ Len(ntc2_window) \in 0 .. 15
    /\ Len(fed1) < 15 => ntc1_window = fed1 /\ ntc2_window = fed2
    /\ Len(fed1) = 15 =>
          /\ ntc1_window = << >> /\ ntc2_window = << >>
          /\ batches >= 1
          /\ MatchLatched = (EqualToFirst(fed1) \in {7, 8} \/ EqualToFirst(fed2) \in {7, 8})

C14_Witness ==
    /\ batches = 2
    /\ Len(fed1) = 15
    /\ feed_mode = "ch2_free_flat"
    /\ EqualToFirst(fed2) = 8
    /\ match_detected = << FALSE, TRUE >>

\* C15: with one tick per 100 ms the session latch of main.c fires on the
\* 100th tick, that is after 10 seconds ("100 * 100 ms = 10 seconds"): from
\* the end of the 100th tick on, reset is asserted, enable is deasserted and
\* sampling is disabled.
C15_LatchOnHundredthTick ==
    (MainTickEnd /\ ticks >= reset_max_count_doc) => Latched

\* C16: a failed trigger is not retried: the step on which the trigger call
\* returns an error starts nothing and halts nothing, it resets the sample
\* counter to 0, and the tick ends with one trigger attempt per sample
\* boundary so far (no second attempt on the tick, the next one at the next
\* boundary) and with the LED and session counters where a successful tick
\* leaves them.
C16_FailedTriggerNotRetried ==
    /\ [][(triggers' = triggers + 1 /\ tick_trigger' # "NRF_SUCCESS") =>
            /\ pc' # "fault"
            /\ converting' = converting /\ armed' = armed
            /\ (variant = "main_c" => saadc_counter' = U32(0))
            /\ (variant = "ble_h" => sample_timer' = U32(0))]_vars
    /\ []((MainTickEnd /\ tick_trigger \notin {"none", "NRF_SUCCESS"}) =>
            /\ saadc_counter = U32(0)
            /\ triggers = ticks \div saadc_interval
            /\ led_counter = U32(ticks % led_interval)
            /\ led_toggles = ticks \div led_interval
            /\ reset_counter = U32(Min(ticks, reset_max_count)))
    /\ []((BleTickEnd /\ tick_trigger \notin {"none", "NRF_SUCCESS"}) =>
            /\ sample_timer = U32(0)
            /\ triggers = ticks \div (SAADC_SAMPLE_INTERVAL_MS \div 100)
            /\ led_toggles = ticks \div blink_interval)

C16_Witness ==
    /\ MainTickEnd
    /\ tick_trigger = "NRFX_ERROR_BUSY"
    /\ ticks = 3
    /\ triggers = 3
    /\ saadc_counter = U32(0)
    /\ converting # 0

\* C17: the reading sequence number of main.c grows by exactly 1 on each
\* conversion-complete event handled while sampling is enabled and is left
\* alone by every other step; it never exceeds the number of triggers
\* issued, which never exceeds reset_max_count, so it neither decreases nor
\* wraps around.
C17_NumberCounterMonotonic ==
    /\ [][/\ number_counter' = (IF /\ variant = "main_c"
                                    /\ converting # 0 /\ converting' = 0
                                    /\ ntc_sampling_enabled
                                 THEN U32Inc(number_counter)
                                 ELSE number_counter)
          /\ U32Geq(number_counter', number_counter)]_vars
    /\ [](/\ \E n \in 0 .. triggers : number_counter = U32(n)
          /\ variant = "main_c" => triggers <= reset_max_count)

C17_Witness ==
    /\ variant = "main_c"
    /\ triggers = reset_max_count
    /\ number_counter = U32(reset_max_count - 1)
    /\ done_evt.seen /\ ~done_evt.processed
    /\ converting = 0

\* C18: with the conversion-complete handler free to run between any two
\* steps of the main loop, a completion is counted, logged and notified only
\* in a state where the reset line is not asserted and the enable line is
\* not deasserted.
C18_NoReadingOnceLatchWritten ==
    [][(converting # 0 /\ converting' = 0 /\ done_evt'.processed) =>
          /\ gpio_out["SR_RESET_PIN"] = 0
          /\ gpio_out["NTC_EN"] = 1]_vars

\* C19: in main.c, at the end of every iteration of the main loop and
\* when the loop is entered after startup, the sampling flag is true if and
\* only if the enable line is high, and if and only if the reset line is low.
C19_LatchVariablesAgree ==
    (variant = "main_c" /\ pc \in {"delay", "loop_head"}) =>
        /\ ntc_sampling_enabled <=> gpio_out["NTC_EN"] = 1
        /\ ntc_sampling_enabled <=> gpio_out["SR_RESET_PIN"] = 0

C19_Witness ==
    /\ variant = "main_c"
    /\ pc = "loop_head"
    /\ ticks = reset_max_count
    /\ latch_fires = 1
    /\ ~ntc_sampling_enabled
    /\ gpio_out["NTC_EN"] = 0
    /\ gpio_out["SR_RESET_PIN"] = 1

\* C20: every trigger is issued with the enable line high: the line is
\* driven high before the first trigger and no trigger follows the step that
\* drives it low.
C20_NoTriggerWhileEnableLow ==
    [][triggers' = triggers + 1 => gpio_out["NTC_EN"] = 1]_vars

C20_Witness ==
    /\ MainTickEnd
    /\ gpio_out["NTC_EN"] = 0
    /\ triggers = reset_max_count
    /\ ticks = reset_max_count + 1
    /\ tick_trigger = "none"

\* C21: in main.c a conversion-complete event that arrives while the
\* sampling flag is false changes nothing: number_counter is unchanged, no
\* reading is taken, encoded or notified, no buffer is armed (the queue only
\* loses the delivered buffer), nothing is halted, and the connection handle,
\* the sampling flag and all pin levels are unchanged.
C21_DisabledCompletionIsNoOp ==
    [][(/\ variant = "main_c"
        /\ converting # 0 /\ converting' = 0
        /\ ~ntc_sampling_enabled) =>
          /\ number_counter' = number_counter
          /\ ~done_evt'.processed
          /\ done_evt'.tx = "none"
          /\ done_evt'.rearm = << >>
          /\ armed' = Tail(armed)
          /\ sample' = sample /\ data' = data
          /\ pc' = pc
          /\ m_conn_handle' = m_conn_handle
          /\ ntc_sampling_enabled' = ntc_sampling_enabled
          /\ gpio_out' = gpio_out]_vars

C21_Witness ==
    /\ variant = "main_c"
    /\ ~ntc_sampling_enabled
    /\ m_conn_handle # BLE_CONN_HANDLE_INVALID
    /\ converting = 0
    /\ done_evt.seen /\ ~done_evt.processed
    /\ done_evt.tx = "none" /\ done_evt.rearm = << >>
    /\ armed = done_evt.armed_at
    /\ gpio_out["NTC_EN"] = 0 /\ gpio_out["SR_RESET_PIN"] = 1

=============================================================================
